---- MODULE Spec2Model ----
(***************************************************************************)
(* Model of scripts/server_library_docs_sync.py: the sync and check runs   *)
(* of the server library documentation snapshot.                           *)
(*                                                                         *)
(* Text is modelled as a sequence of one-character strings, so that the    *)
(* parsers of the script (semver_key, parse_snapshot_date) and its         *)
(* formatters (date.isoformat, write_version) are computed, not assumed.   *)
(***************************************************************************)
EXTENDS Integers, Sequences, FiniteSets, TLC

VARIABLES
    fs,          \* the files under SNAPSHOT_DIR: path -> [exists, data]
    lock,        \* Cargo.lock: [exists, packages], packages in file order
    today,       \* the date dt.date.today() returns
    pc,          \* "idle", or "libs" while sync_snapshot is in its loop
    run,         \* locals of the sync run in progress
    last,        \* outcome of the most recent finished run
    written,     \* paths write_text was called on in the current/most recent sync run
    fetched,     \* download outcomes of the current/most recent sync run, per slug
    synced,      \* date, mode and versions of the last sync run that returned 0
    removed,     \* a snapshot file was removed since the last sync that returned 0
    ticks,       \* number of times the clock was set back so far
    failed       \* number of library syncs so far in which a download failed or raised

vars == <<fs, lock, today, pc, run, last, written, fetched, synced, removed, ticks, failed>>

(***************************************************************************)
(* Bounds of the model.                                                    *)
(***************************************************************************)
\* number of entries of LIBRARIES a run iterates over
NumLibs == 2
\* number of library syncs in a behaviour in which a download fails or raises
MaxFailed == 1
\* number of days the clock moves on in a behaviour
MaxDay == 62
\* number of times the clock is set back in a behaviour
MaxSetBacks == 1
\* longest list of versions of one crate in the lockfile
MaxCands == 3

(***************************************************************************)
(* Program constants.                                                      *)
(***************************************************************************)
WARNING_DAYS == 30
FAIL_DAYS == 60

LIBRARIES ==
    << [slug |-> "loco-rs",       crate |-> "loco-rs",       rustdoc_path |-> "loco_rs"],
       [slug |-> "axum",          crate |-> "axum",          rustdoc_path |-> "axum"],
       [slug |-> "sea-orm",       crate |-> "sea-orm",       rustdoc_path |-> "sea_orm"],
       [slug |-> "async-graphql", crate |-> "async-graphql", rustdoc_path |-> "async_graphql"],
       [slug |-> "tokio",         crate |-> "tokio",         rustdoc_path |-> "tokio"],
       [slug |-> "serde",         crate |-> "serde",         rustdoc_path |-> "serde"],
       [slug |-> "tracing",       crate |-> "tracing",       rustdoc_path |-> "tracing"],
       [slug |-> "utoipa",        crate |-> "utoipa",        rustdoc_path |-> "utoipa"] >>

\* the libraries the loops of the model run over: the first NumLibs of LIBRARIES
Tracked == SubSeq(LIBRARIES, 1, IF NumLibs < Len(LIBRARIES) THEN NumLibs ELSE Len(LIBRARIES))

Slugs == { Tracked[i].slug : i \in 1..Len(Tracked) }
Crates == { Tracked[i].crate : i \in 1..Len(Tracked) }

(***************************************************************************)
(* Text: characters, code points, str comparison, str.split, int().        *)
(***************************************************************************)
DigitChars == <<"0", "1", "2", "3", "4", "5", "6", "7", "8", "9">>

IsDigit(c) == \E i \in 1..10 : DigitChars[i] = c

DigitValue(c) == (CHOOSE i \in 1..10 : DigitChars[i] = c) - 1

\* the characters of the texts of the model, in code point order
CharOrder == <<" ", "#", "-", ".", "0", "1", "2", "3", "4", "5", "6", "7", "8", "9", "=",
               "S", "_", "a", "b", "c", "d", "e", "h", "i", "k", "l", "m", "n", "o", "p",
               "r", "s", "t", "u", "v", "y">>

CodePoint(c) == CHOOSE i \in 1..Len(CharOrder) : CharOrder[i] = c

\* Python's str < str: by code point, a proper prefix is smaller
RECURSIVE StrLess(_, _)
StrLess(a, b) ==
    IF b = <<>> THEN FALSE
    ELSE IF a = <<>> THEN TRUE
    ELSE IF Head(a) # Head(b) THEN CodePoint(Head(a)) < CodePoint(Head(b))
    ELSE StrLess(Tail(a), Tail(b))

\* index of the first occurrence of character c in s, 0 if none
RECURSIVE FindChar(_, _, _)
FindChar(s, c, i) ==
    IF i > Len(s) THEN 0
    ELSE IF s[i] = c THEN i
    ELSE FindChar(s, c, i + 1)

\* s.split(c, 1)
SplitOnce(s, c) ==
    LET k == FindChar(s, c, 1)
    IN  IF k = 0 THEN <<s>>
        ELSE <<SubSeq(s, 1, k - 1), SubSeq(s, k + 1, Len(s))>>

\* s.split(c)
RECURSIVE Split(_, _)
Split(s, c) ==
    LET k == FindChar(s, c, 1)
    IN  IF k = 0 THEN <<s>>
        ELSE <<SubSeq(s, 1, k - 1)>> \o Split(SubSeq(s, k + 1, Len(s)), c)

\* int(s) of a string of decimal digits
RECURSIVE ParseInt(_)
ParseInt(s) ==
    IF s = <<>> THEN 0
    ELSE 10 * ParseInt(SubSeq(s, 1, Len(s) - 1)) + DigitValue(s[Len(s)])

(***************************************************************************)
(* semver_key and the choice of the newest version.                        *)
(***************************************************************************)
RECURSIVE PadParts(_)
PadParts(parts) == IF Len(parts) < 3 THEN PadParts(Append(parts, 0)) ELSE parts

semver_key(version) ==
    LET sp    == SplitOnce(version, "-")
        main  == sp[1]
        texts == Split(main, ".")
        parts == PadParts([i \in 1..Len(texts) |-> ParseInt(texts[i])])
        pre   == IF Len(sp) > 1 THEN sp[2] ELSE <<>>
    IN  <<parts[1], parts[2], parts[3], pre>>

\* Python's tuple < tuple on two keys
KeyLess(k1, k2) ==
    \/ k1[1] < k2[1]
    \/ k1[1] = k2[1] /\ k1[2] < k2[2]
    \/ k1[1] = k2[1] /\ k1[2] = k2[2] /\ k1[3] < k2[3]
    \/ k1[1] = k2[1] /\ k1[2] = k2[2] /\ k1[3] = k2[3] /\ StrLess(k1[4], k2[4])

\* insert x into the sorted list s behind every element that is not greater
RECURSIVE InsertSorted(_, _)
InsertSorted(s, x) ==
    IF s = <<>> THEN <<x>>
    ELSE IF KeyLess(semver_key(x), semver_key(s[Len(s)]))
         THEN Append(InsertSorted(SubSeq(s, 1, Len(s) - 1), x), s[Len(s)])
         ELSE Append(s, x)

\* sorted(candidates, key=semver_key): a stable sort
RECURSIVE SortedBySemver(_)
SortedBySemver(candidates) ==
    IF candidates = <<>> THEN <<>>
    ELSE InsertSorted(SortedBySemver(SubSeq(candidates, 1, Len(candidates) - 1)),
                      candidates[Len(candidates)])

\* the list versions.get(crate, []) built by the finditer loop
RECURSIVE CandidatesOf(_, _)
CandidatesOf(packages, crate) ==
    IF packages = <<>> THEN <<>>
    ELSE (IF Head(packages).name = crate THEN <<Head(packages).version>> ELSE <<>>)
         \o CandidatesOf(Tail(packages), crate)

\* parse_cargo_lock_versions without the check for a crate with no entry: the
\* version of such a crate is the empty string
parse_cargo_lock_versions_lenient(lockfile) ==
    IF ~lockfile.exists
    THEN [ok |-> FALSE, error |-> "Cargo.lock not found", result |-> <<>>]
    ELSE [ok |-> TRUE, error |-> "",
          result |-> [c \in Crates |->
                        LET sorted == SortedBySemver(CandidatesOf(lockfile.packages, c))
                        IN  IF sorted = <<>> THEN <<>> ELSE sorted[Len(sorted)]]]

\* parse_cargo_lock_versions: [ok |-> FALSE, error] when it raises,
\* or [ok |-> TRUE, result] with the version picked per tracked crate
parse_cargo_lock_versions(lockfile) ==
    IF ~lockfile.exists
    THEN [ok |-> FALSE, error |-> "Cargo.lock not found", result |-> <<>>]
    ELSE IF \E c \in Crates : CandidatesOf(lockfile.packages, c) = <<>>
    THEN [ok |-> FALSE, error |-> "Crate was not found in Cargo.lock", result |-> <<>>]
    ELSE [ok |-> TRUE, error |-> "",
          result |-> [c \in Crates |->
                        LET sorted == SortedBySemver(CandidatesOf(lockfile.packages, c))
                        IN  sorted[Len(sorted)]]]

(***************************************************************************)
(* Dates: datetime.date as (year, month, day), its ordinal, isoformat and  *)
(* fromisoformat.                                                          *)
(***************************************************************************)
IsLeap(y) == y % 4 = 0 /\ (y % 100 # 0 \/ y % 400 = 0)

DaysInMonth(y, m) ==
    IF m = 2 THEN (IF IsLeap(y) THEN 29 ELSE 28)
    ELSE IF m \in {4, 6, 9, 11} THEN 30 ELSE 31

DaysBeforeYear(y) ==
    LET p == y - 1 IN p * 365 + (p \div 4) - (p \div 100) + (p \div 400)

RECURSIVE DaysBeforeMonth(_, _)
DaysBeforeMonth(y, m) ==
    IF m = 1 THEN 0 ELSE DaysBeforeMonth(y, m - 1) + DaysInMonth(y, m - 1)

\* date.toordinal()
ToOrdinal(d) == DaysBeforeYear(d.year) + DaysBeforeMonth(d.year, d.month) + d.day

IsDate(y, m, d) == y \in 1..9999 /\ m \in 1..12 /\ d \in 1..DaysInMonth(y, m)

\* (a - b).days
DaysBetween(a, b) == ToOrdinal(a) - ToOrdinal(b)

\* the decimal digits of n, zero-padded to width w ("%0wd")
RECURSIVE ZeroPad(_, _)
ZeroPad(n, w) ==
    IF w <= 1 /\ n < 10 THEN <<DigitChars[n + 1]>>
    ELSE Append(ZeroPad(n \div 10, w - 1), DigitChars[(n % 10) + 1])

\* date.isoformat() without the zero padding ("%d-%d-%d")
isoformat_unpadded(d) ==
    ZeroPad(d.year, 1) \o <<"-">> \o ZeroPad(d.month, 1) \o <<"-">> \o ZeroPad(d.day, 1)

\* date.isoformat(): YYYY-MM-DD
isoformat(d) ==
    ZeroPad(d.year, 4) \o <<"-">> \o ZeroPad(d.month, 2) \o <<"-">> \o ZeroPad(d.day, 2)

AllDigits(s) == \A i \in 1..Len(s) : IsDigit(s[i])

\* date.fromisoformat(s): [ok |-> FALSE] when it raises ValueError
fromisoformat(s) ==
    IF /\ Len(s) = 10
       /\ s[5] = "-" /\ s[8] = "-"
       /\ AllDigits(SubSeq(s, 1, 4)) /\ AllDigits(SubSeq(s, 6, 7)) /\ AllDigits(SubSeq(s, 9, 10))
       /\ IsDate(ParseInt(SubSeq(s, 1, 4)), ParseInt(SubSeq(s, 6, 7)), ParseInt(SubSeq(s, 9, 10)))
    THEN [ok |-> TRUE,
          date |-> [year  |-> ParseInt(SubSeq(s, 1, 4)),
                    month |-> ParseInt(SubSeq(s, 6, 7)),
                    day   |-> ParseInt(SubSeq(s, 9, 10))]]
    ELSE [ok |-> FALSE, date |-> [year |-> 0, month |-> 0, day |-> 0]]

(***************************************************************************)
(* Lines of text: "\n".join, str.splitlines, str.strip, str.startswith.    *)
(***************************************************************************)
RECURSIVE JoinLines(_)
JoinLines(lines) ==
    IF lines = <<>> THEN <<>>
    ELSE IF Len(lines) = 1 THEN lines[1]
    ELSE lines[1] \o <<"\n">> \o JoinLines(Tail(lines))

RECURSIVE splitlines(_)
splitlines(text) ==
    IF text = <<>> THEN <<>>
    ELSE LET k == FindChar(text, "\n", 1)
         IN  IF k = 0 THEN <<text>>
             ELSE <<SubSeq(text, 1, k - 1)>> \o splitlines(SubSeq(text, k + 1, Len(text)))

IsSpace(c) == c \in {" ", "\n"}

RECURSIVE strip(_)
strip(s) ==
    IF s = <<>> THEN s
    ELSE IF IsSpace(s[1]) THEN strip(Tail(s))
    ELSE IF IsSpace(s[Len(s)]) THEN strip(SubSeq(s, 1, Len(s) - 1))
    ELSE s

startswith(s, prefix) == Len(s) >= Len(prefix) /\ SubSeq(s, 1, Len(prefix)) = prefix

(***************************************************************************)
(* The snapshot directory.                                                 *)
(***************************************************************************)
VERSION_FILE == <<"", "VERSION">>
INDEX_FILE == <<"", "README.md">>

LibFiles == {"metadata.json", "docsrs-crate.html", "docsrs-rustdoc.html", "DOWNLOAD_STATUS.txt"}

Paths == {VERSION_FILE, INDEX_FILE} \cup (Slugs \X LibFiles)

\* the files check_snapshot looks for, one per library
CheckedPaths == Slugs \X {"metadata.json"}

NoFile == [exists |-> FALSE, data |-> <<>>]

\* write_text applied to the files f
write_text(f, path, text) == [f EXCEPT ![path] = [exists |-> TRUE, data |-> text]]

\* the writes ws, a list of <<path, text>>, applied in order
RECURSIVE ApplyWrites(_, _)
ApplyWrites(f, ws) ==
    IF ws = <<>> THEN f
    ELSE ApplyWrites(write_text(f, Head(ws)[1], Head(ws)[2]), Tail(ws))

PathsOf(ws) == { ws[i][1] : i \in 1..Len(ws) }

(***************************************************************************)
(* Downloads and the files of one library.                                 *)
(***************************************************************************)
\* what urlopen can do: answer, or raise URLError (the network is unreachable)
Outcomes == {"ok", "unreachable"}

URLErrorText == "<urlopen error [Errno 101] Network is unreachable>"

\* the page docs.rs serves at url
Page(url) == [page_of |-> url]

\* try_download(url) when urlopen ends with outcome
try_download(url, outcome) ==
    IF outcome = "ok" THEN [ok |-> TRUE, body |-> Page(url)]
    ELSE [ok |-> FALSE, body |-> URLErrorText]

docs_rs_crate(lib, version) ==
    [base |-> "https://docs.rs/crate/", crate |-> lib.crate, version |-> version, path |-> ""]

docs_rs_rustdoc(lib, version) ==
    [base |-> "https://docs.rs/", crate |-> lib.crate, version |-> version,
     path |-> lib.rustdoc_path]

\* the dictionary sync_library dumps to metadata.json
Metadata(lib, version, download_html, ok_crate, ok_rustdoc) ==
    LET base == [crate           |-> lib.crate,
                 version         |-> version,
                 docs_rs_crate   |-> docs_rs_crate(lib, version),
                 docs_rs_rustdoc |-> docs_rs_rustdoc(lib, version)]
    IN  IF download_html
        THEN [crate           |-> base.crate,
              version         |-> base.version,
              docs_rs_crate   |-> base.docs_rs_crate,
              docs_rs_rustdoc |-> base.docs_rs_rustdoc,
              downloaded      |-> (ok_crate /\ ok_rustdoc)]
        ELSE base

\* sync_library with downloaded set when either page was downloaded (or for and)
sync_library_any_page(lib, version, download_html, oc, orr) ==
    LET crate_res   == try_download(docs_rs_crate(lib, version), oc)
        rustdoc_res == try_download(docs_rs_rustdoc(lib, version), orr)
        ok_crate    == crate_res.ok
        ok_rustdoc  == rustdoc_res.ok
        html ==
            IF download_html
            THEN (IF ok_crate
                  THEN << <<<<lib.slug, "docsrs-crate.html">>, crate_res.body>> >>
                  ELSE <<>>)
                 \o
                 (IF ok_rustdoc
                  THEN << <<<<lib.slug, "docsrs-rustdoc.html">>, rustdoc_res.body>> >>
                  ELSE <<>>)
                 \o
                 (IF ~(ok_crate /\ ok_rustdoc)
                  THEN << <<<<lib.slug, "DOWNLOAD_STATUS.txt">>,
                            [headline     |-> "Unable to download docs.rs pages in this environment.",
                             crate_page   |-> IF ~ok_crate THEN crate_res.body ELSE "ok",
                             rustdoc_page |-> IF ~ok_rustdoc THEN rustdoc_res.body ELSE "ok"]>> >>
                  ELSE <<>>)
            ELSE <<>>
    IN  [writes |-> html \o
                    << <<<<lib.slug, "metadata.json">>,
                         Metadata(lib, version, download_html, ok_crate \/ ok_rustdoc, ok_crate \/ ok_rustdoc)>> >>,
         record |-> [slug            |-> lib.slug,
                     crate           |-> lib.crate,
                     version         |-> version,
                     docs_rs_crate   |-> docs_rs_crate(lib, version),
                     docs_rs_rustdoc |-> docs_rs_rustdoc(lib, version)]]

\* sync_library returning right after it wrote DOWNLOAD_STATUS.txt
sync_library_early_return(lib, version, download_html, oc, orr) ==
    LET crate_res   == try_download(docs_rs_crate(lib, version), oc)
        rustdoc_res == try_download(docs_rs_rustdoc(lib, version), orr)
        ok_crate    == crate_res.ok
        ok_rustdoc  == rustdoc_res.ok
        html ==
            IF download_html
            THEN (IF ok_crate
                  THEN << <<<<lib.slug, "docsrs-crate.html">>, crate_res.body>> >>
                  ELSE <<>>)
                 \o
                 (IF ok_rustdoc
                  THEN << <<<<lib.slug, "docsrs-rustdoc.html">>, rustdoc_res.body>> >>
                  ELSE <<>>)
                 \o
                 (IF ~(ok_crate /\ ok_rustdoc)
                  THEN << <<<<lib.slug, "DOWNLOAD_STATUS.txt">>,
                            [headline     |-> "Unable to download docs.rs pages in this environment.",
                             crate_page   |-> IF ~ok_crate THEN crate_res.body ELSE "ok",
                             rustdoc_page |-> IF ~ok_rustdoc THEN rustdoc_res.body ELSE "ok"]>> >>
                  ELSE <<>>)
            ELSE <<>>
    IN  [writes |-> html \o
                    (IF download_html /\ ~(ok_crate /\ ok_rustdoc) THEN <<>>
                     ELSE << <<<<lib.slug, "metadata.json">>,
                               Metadata(lib, version, download_html, ok_crate, ok_rustdoc)>> >>),
         record |-> [slug            |-> lib.slug,
                     crate           |-> lib.crate,
                     version         |-> version,
                     docs_rs_crate   |-> docs_rs_crate(lib, version),
                     docs_rs_rustdoc |-> docs_rs_rustdoc(lib, version)]]

\* sync_library with the write of metadata.json inside the if download_html block
sync_library_metadata_in_if(lib, version, download_html, oc, orr) ==
    LET crate_res   == try_download(docs_rs_crate(lib, version), oc)
        rustdoc_res == try_download(docs_rs_rustdoc(lib, version), orr)
        ok_crate    == crate_res.ok
        ok_rustdoc  == rustdoc_res.ok
        html ==
            IF download_html
            THEN (IF ok_crate
                  THEN << <<<<lib.slug, "docsrs-crate.html">>, crate_res.body>> >>
                  ELSE <<>>)
                 \o
                 (IF ok_rustdoc
                  THEN << <<<<lib.slug, "docsrs-rustdoc.html">>, rustdoc_res.body>> >>
                  ELSE <<>>)
                 \o
                 (IF ~(ok_crate /\ ok_rustdoc)
                  THEN << <<<<lib.slug, "DOWNLOAD_STATUS.txt">>,
                            [headline     |-> "Unable to download docs.rs pages in this environment.",
                             crate_page   |-> IF ~ok_crate THEN crate_res.body ELSE "ok",
                             rustdoc_page |-> IF ~ok_rustdoc THEN rustdoc_res.body ELSE "ok"]>> >>
                  ELSE <<>>)
                 \o
                 << <<<<lib.slug, "metadata.json">>,
                      Metadata(lib, version, download_html, ok_crate, ok_rustdoc)>> >>
            ELSE <<>>
    IN  [writes |-> html,
         record |-> [slug            |-> lib.slug,
                     crate           |-> lib.crate,
                     version         |-> version,
                     docs_rs_crate   |-> docs_rs_crate(lib, version),
                     docs_rs_rustdoc |-> docs_rs_rustdoc(lib, version)]]

\* sync_library: the write_text calls it makes, in order, and the record it returns;
\* oc and orr are the outcomes of its two downloads
sync_library(lib, version, download_html, oc, orr) ==
    LET crate_res   == try_download(docs_rs_crate(lib, version), oc)
        rustdoc_res == try_download(docs_rs_rustdoc(lib, version), orr)
        ok_crate    == crate_res.ok
        ok_rustdoc  == rustdoc_res.ok
        html ==
            IF download_html
            THEN (IF ok_crate
                  THEN << <<<<lib.slug, "docsrs-crate.html">>, crate_res.body>> >>
                  ELSE <<>>)
                 \o
                 (IF ok_rustdoc
                  THEN << <<<<lib.slug, "docsrs-rustdoc.html">>, rustdoc_res.body>> >>
                  ELSE <<>>)
                 \o
                 (IF ~(ok_crate /\ ok_rustdoc)
                  THEN << <<<<lib.slug, "DOWNLOAD_STATUS.txt">>,
                            [headline     |-> "Unable to download docs.rs pages in this environment.",
                             crate_page   |-> IF ~ok_crate THEN crate_res.body ELSE "ok",
                             rustdoc_page |-> IF ~ok_rustdoc THEN rustdoc_res.body ELSE "ok"]>> >>
                  ELSE <<>>)
            ELSE <<>>
    IN  [writes |-> html \o
                    << <<<<lib.slug, "metadata.json">>,
                         Metadata(lib, version, download_html, ok_crate, ok_rustdoc)>> >>,
         record |-> [slug            |-> lib.slug,
                     crate           |-> lib.crate,
                     version         |-> version,
                     docs_rs_crate   |-> docs_rs_crate(lib, version),
                     docs_rs_rustdoc |-> docs_rs_rustdoc(lib, version)]]

(***************************************************************************)
(* The snapshot marker and the index.                                      *)
(***************************************************************************)
VersionHeader ==
    <<"#", " ", "S", "e", "r", "v", "e", "r", " ", "l", "i", "b", "r", "a", "r", "y", " ",
      "u", "p", "s", "t", "r", "e", "a", "m", " ", "d", "o", "c", "s", " ", "s", "n", "a",
      "p", "s", "h", "o", "t", " ", "m", "e", "t", "a", "d", "a", "t", "a">>

SnapshotDateKey ==
    <<"s", "n", "a", "p", "s", "h", "o", "t", "_", "d", "a", "t", "e", "=">>

SourceKey ==
    <<"s", "o", "u", "r", "c", "e", "=">>

ModeHtml ==
    <<"d", "o", "c", "s", "r", "s", "-", "h", "t", "m", "l">>

ModeLinks ==
    <<"d", "o", "c", "s", "r", "s", "-", "l", "i", "n", "k", "s">>

ModeOf(download_html) == IF download_html THEN ModeHtml ELSE ModeLinks

\* write_version: the text it writes to VERSION_FILE
write_version(snapshot_date, download_html) ==
    JoinLines(<< VersionHeader,
                 SnapshotDateKey \o isoformat(snapshot_date),
                 SourceKey \o ModeOf(download_html),
                 <<>> >>)

\* write_index: the text it writes to INDEX_FILE
write_index(snapshot_date, records, download_html) ==
    [snapshot_date |-> isoformat(snapshot_date),
     rows          |-> records,
     mode_note     |-> IF download_html THEN "html copies if the network is reachable"
                       ELSE "versions and links without html"]

\* the first line of lines that, stripped, starts with snapshot_date=; 0 if none
RECURSIVE FirstDateLine(_, _)
FirstDateLine(lines, i) ==
    IF i > Len(lines) THEN 0
    ELSE IF startswith(strip(lines[i]), SnapshotDateKey) THEN i
    ELSE FirstDateLine(lines, i + 1)

\* parse_snapshot_date on the files f: [ok |-> FALSE] when it raises
parse_snapshot_date(f) ==
    LET none == [year |-> 0, month |-> 0, day |-> 0]
    IN  IF ~f[VERSION_FILE].exists
        THEN [ok |-> FALSE, error |-> "Missing snapshot metadata file", date |-> none]
        ELSE LET lines == splitlines(f[VERSION_FILE].data)
                 k     == FirstDateLine(lines, 1)
             IN  IF k = 0
                 THEN [ok |-> FALSE, error |-> "snapshot_date key not found", date |-> none]
                 ELSE LET value  == SplitOnce(strip(lines[k]), "=")[2]
                          parsed == fromisoformat(strip(value))
                      IN  IF parsed.ok
                          THEN [ok |-> TRUE, error |-> "", date |-> parsed.date]
                          ELSE [ok |-> FALSE, error |-> "ValueError", date |-> none]

(***************************************************************************)
(* check_snapshot.                                                         *)
(***************************************************************************)
MetadataPath(slug) == <<slug, "metadata.json">>

\* check_snapshot with the loop over LIBRARIES left at its first missing file only
\* when every file is missing (all() written for any())
check_snapshot_all_missing(parsed, f, now) ==
    LET age_days == DaysBetween(now, parsed.date)
        absent   == { s \in Slugs : ~f[MetadataPath(s)].exists }
        missing  == IF absent = Slugs THEN absent ELSE {}
    IN  IF ~parsed.ok
        THEN [outcome |-> "raise", error |-> parsed.error, warning |-> FALSE,
              age_days |-> 0, missing |-> {}, snapshot_date |-> parsed.date]
        ELSE IF missing # {}
        THEN [outcome |-> "return 1", error |-> "Missing server library snapshot files",
              warning |-> FALSE, age_days |-> age_days, missing |-> missing,
              snapshot_date |-> parsed.date]
        ELSE IF age_days > FAIL_DAYS
        THEN [outcome |-> "return 1", error |-> "snapshot is older than FAIL_DAYS days",
              warning |-> FALSE, age_days |-> age_days, missing |-> {},
              snapshot_date |-> parsed.date]
        ELSE [outcome |-> "return 0", error |-> "", warning |-> (age_days > WARNING_DAYS),
              age_days |-> age_days, missing |-> {}, snapshot_date |-> parsed.date]

\* check_snapshot with >= for > in the comparison with FAIL_DAYS
check_snapshot_fail_at(parsed, f, now) ==
    LET age_days == DaysBetween(now, parsed.date)
        missing  == { s \in Slugs : ~f[MetadataPath(s)].exists }
    IN  IF ~parsed.ok
        THEN [outcome |-> "raise", error |-> parsed.error, warning |-> FALSE,
              age_days |-> 0, missing |-> {}, snapshot_date |-> parsed.date]
        ELSE IF missing # {}
        THEN [outcome |-> "return 1", error |-> "Missing server library snapshot files",
              warning |-> FALSE, age_days |-> age_days, missing |-> missing,
              snapshot_date |-> parsed.date]
        ELSE IF age_days >= FAIL_DAYS
        THEN [outcome |-> "return 1", error |-> "snapshot is older than FAIL_DAYS days",
              warning |-> FALSE, age_days |-> age_days, missing |-> {},
              snapshot_date |-> parsed.date]
        ELSE [outcome |-> "return 0", error |-> "", warning |-> (age_days > WARNING_DAYS),
              age_days |-> age_days, missing |-> {}, snapshot_date |-> parsed.date]

\* check_snapshot from its second line on, on the files f on the day now: parsed is
\* what parse_snapshot_date gave
check_snapshot_body(parsed, f, now) ==
    LET age_days == DaysBetween(now, parsed.date)
        missing  == { s \in Slugs : ~f[MetadataPath(s)].exists }
    IN  IF ~parsed.ok
        THEN [outcome |-> "raise", error |-> parsed.error, warning |-> FALSE,
              age_days |-> 0, missing |-> {}, snapshot_date |-> parsed.date]
        ELSE IF missing # {}
        THEN [outcome |-> "return 1", error |-> "Missing server library snapshot files",
              warning |-> FALSE, age_days |-> age_days, missing |-> missing,
              snapshot_date |-> parsed.date]
        ELSE IF age_days > FAIL_DAYS
        THEN [outcome |-> "return 1", error |-> "snapshot is older than FAIL_DAYS days",
              warning |-> FALSE, age_days |-> age_days, missing |-> {},
              snapshot_date |-> parsed.date]
        ELSE [outcome |-> "return 0", error |-> "", warning |-> (age_days > WARNING_DAYS),
              age_days |-> age_days, missing |-> {}, snapshot_date |-> parsed.date]

\* check_snapshot on the files f on the day now
check_snapshot(f, now) == check_snapshot_body(parse_snapshot_date(f), f, now)

(***************************************************************************)
(* The environment: lockfiles, the clock.                                  *)
(***************************************************************************)
V_0_9_0        == <<"0", ".", "9", ".", "0">>
V_0_10_0       == <<"0", ".", "1", "0", ".", "0">>
V_1_0_0        == <<"1", ".", "0", ".", "0">>
V_1_0_0_alpha  == <<"1", ".", "0", ".", "0", "-", "a", "l", "p", "h", "a">>
V_1_0_0_rc_2   == <<"1", ".", "0", ".", "0", "-", "r", "c", ".", "2">>
V_1_0_0_rc_10  == <<"1", ".", "0", ".", "0", "-", "r", "c", ".", "1", "0">>

\* versions a lockfile lists for a crate
VersionSamples == {V_0_9_0, V_0_10_0, V_1_0_0, V_1_0_0_alpha, V_1_0_0_rc_2, V_1_0_0_rc_10}

\* [[package]] entries of crate, one per version of vs
Entries(crate, vs) == [i \in 1..Len(vs) |-> [name |-> crate, version |-> vs[i]]]

\* the entries of the tracked crates from index i on, each with the versions vs
RECURSIVE TrackedEntries(_, _)
TrackedEntries(i, vs) ==
    IF i > Len(Tracked) THEN <<>>
    ELSE Entries(Tracked[i].crate, vs) \o TrackedEntries(i + 1, vs)

Untracked == <<[name |-> "syn", version |-> V_1_0_0]>>

LockAbsent  == [exists |-> FALSE, packages |-> <<>>]
LockPinned  == [exists |-> TRUE, packages |-> Untracked \o TrackedEntries(1, <<V_0_9_0>>)]
LockUpgrade == [exists |-> TRUE,
                packages |-> TrackedEntries(1, <<V_0_10_0, V_0_9_0>>) \o Untracked]
\* every tracked crate but the last one is listed
LockPartial == [exists |-> TRUE,
                packages |-> SubSeq(TrackedEntries(1, <<V_0_9_0>>), 1, Len(Tracked) - 1)]

LockStates == {LockAbsent, LockPinned, LockUpgrade, LockPartial}

StartDate == [year |-> 2023, month |-> 12, day |-> 31]

\* days the clock moves on at once
DaySteps == {30, 31}

\* the date n days after d (before it, for a negative n), a month at a time
RECURSIVE AddDays(_, _)
AddDays(d, n) ==
    IF n >= 0
    THEN IF d.day + n <= DaysInMonth(d.year, d.month)
         THEN [d EXCEPT !.day = d.day + n]
         ELSE AddDays(IF d.month < 12
                      THEN [year |-> d.year, month |-> d.month + 1, day |-> 1]
                      ELSE [year |-> d.year + 1, month |-> 1, day |-> 1],
                      n - (DaysInMonth(d.year, d.month) - d.day + 1))
    ELSE IF d.day + n >= 1
         THEN [d EXCEPT !.day = d.day + n]
         ELSE AddDays(IF d.month > 1
                      THEN [year |-> d.year, month |-> d.month - 1,
                            day |-> DaysInMonth(d.year, d.month - 1)]
                      ELSE [year |-> d.year - 1, month |-> 12, day |-> 31],
                      n + d.day)

(***************************************************************************)
(* State.                                                                  *)
(***************************************************************************)
NoDate == [year |-> 0, month |-> 0, day |-> 0]

NoRun == [snapshot_date |-> NoDate, download_html |-> FALSE, versions |-> <<>>,
          records |-> <<>>, i |-> 0]

NoLast == [cmd |-> "none", outcome |-> "none", error |-> "", warning |-> FALSE,
           age_days |-> 0, missing |-> {}, snapshot_date |-> NoDate,
           download_html |-> FALSE]

NoSync == [date |-> NoDate, download_html |-> FALSE, versions |-> <<>>]

NotFetched == [crate |-> "none", rustdoc |-> "none"]

EmptyDir == [p \in Paths |-> NoFile]

Init ==
    /\ fs = EmptyDir
    /\ lock \in LockStates
    /\ today = StartDate
    /\ pc = "idle"
    /\ run = NoRun
    /\ last = NoLast
    /\ written = {}
    /\ fetched = [s \in Slugs |-> NotFetched]
    /\ synced = NoSync
    /\ removed = FALSE
    /\ ticks = 0
    /\ failed = 0

(***************************************************************************)
(* sync_snapshot, in steps: the lockfile, one library at a time, the       *)
(* marker and the index.                                                   *)
(***************************************************************************)
\* sync_snapshot up to its loop: today's date is taken and the lockfile resolved
SyncStart(download_html) ==
    /\ pc = "idle"
    /\ LET parsed == parse_cargo_lock_versions(lock)
       IN  IF parsed.ok
           THEN /\ pc' = "libs"
                /\ run' = [snapshot_date |-> today, download_html |-> download_html,
                           versions |-> parsed.result, records |-> <<>>, i |-> 1]
                /\ last' = [NoLast EXCEPT !.cmd = "sync", !.outcome = "running",
                                          !.download_html = download_html]
           ELSE /\ pc' = "idle"
                /\ run' = NoRun
                /\ last' = [NoLast EXCEPT !.cmd = "sync", !.outcome = "raise",
                                          !.error = parsed.error,
                                          !.download_html = download_html]
    /\ written' = {}
    /\ fetched' = [s \in Slugs |-> NotFetched]
    /\ UNCHANGED <<fs, lock, today, synced, removed, ticks, failed>>

\* one iteration of the loop of sync_snapshot: sync_library on LIBRARIES[run.i]
SyncLibrary(oc, orr) ==
    /\ pc = "libs"
    /\ run.i <= Len(Tracked)
    /\ run.download_html \/ (oc = "ok" /\ orr = "ok")
    /\ (oc = "ok" /\ orr = "ok") \/ failed < MaxFailed
    /\ failed' = IF oc = "ok" /\ orr = "ok" THEN failed ELSE failed + 1
    /\ LET lib == Tracked[run.i]
           res == sync_library(lib, run.versions[lib.crate], run.download_html, oc, orr)
       IN  /\ fs' = ApplyWrites(fs, res.writes)
           /\ written' = written \cup PathsOf(res.writes)
           /\ fetched' = [fetched EXCEPT ![lib.slug] =
                             IF run.download_html THEN [crate |-> oc, rustdoc |-> orr]
                             ELSE NotFetched]
           /\ run' = [run EXCEPT !.records = Append(run.records, res.record),
                                 !.i = run.i + 1]
    /\ UNCHANGED <<lock, today, pc, last, synced, removed, ticks>>

\* a download of LIBRARIES[run.i] raises something try_download does not catch
\* (a timeout while reading, a broken connection): the run ends there
SyncCrash ==
    /\ pc = "libs"
    /\ run.i <= Len(Tracked)
    /\ run.download_html
    /\ failed < MaxFailed
    /\ failed' = failed + 1
    /\ pc' = "idle"
    /\ last' = [NoLast EXCEPT !.cmd = "sync", !.outcome = "raise",
                              !.error = "download raised",
                              !.download_html = run.download_html]
    /\ fetched' = [fetched EXCEPT ![Tracked[run.i].slug] = [crate |-> "raise", rustdoc |-> "none"]]
    /\ run' = NoRun
    /\ UNCHANGED <<fs, lock, today, written, synced, removed, ticks>>

\* the writes sync_snapshot makes after its loop, in order
FinishWrites(r) ==
    << <<VERSION_FILE, write_version(r.snapshot_date, r.download_html)>>,
       <<INDEX_FILE, write_index(r.snapshot_date, r.records, r.download_html)>> >>

\* sync_snapshot after its loop: the marker, the index, return 0
SyncFinish ==
    /\ pc = "libs"
    /\ run.i > Len(Tracked)
    /\ fs' = ApplyWrites(fs, FinishWrites(run))
    /\ written' = written \cup PathsOf(FinishWrites(run))
    /\ pc' = "idle"
    /\ last' = [NoLast EXCEPT !.cmd = "sync", !.outcome = "return 0",
                              !.snapshot_date = run.snapshot_date,
                              !.download_html = run.download_html]
    /\ synced' = [date |-> run.snapshot_date, download_html |-> run.download_html,
                  versions |-> run.versions]
    /\ removed' = FALSE
    /\ run' = NoRun
    /\ UNCHANGED <<lock, today, fetched, ticks, failed>>

\* a check run
Check ==
    /\ pc = "idle"
    /\ LET res == check_snapshot(fs, today)
       IN  last' = [cmd |-> "check", outcome |-> res.outcome, error |-> res.error,
                    warning |-> res.warning, age_days |-> res.age_days,
                    missing |-> res.missing, snapshot_date |-> res.snapshot_date,
                    download_html |-> FALSE]
    /\ UNCHANGED <<fs, lock, today, pc, run, written, fetched, synced, removed, ticks, failed>>

(***************************************************************************)
(* Between runs: the lockfile is edited, the clock moves, a file of the    *)
(* snapshot is removed.                                                    *)
(***************************************************************************)
EditLock ==
    /\ pc = "idle"
    /\ lock' \in LockStates \ {lock}
    /\ UNCHANGED <<fs, today, pc, run, last, written, fetched, synced, removed, ticks, failed>>

\* days pass
Tick ==
    /\ pc = "idle"
    /\ \E n \in DaySteps :
          /\ DaysBetween(AddDays(today, n), StartDate) <= MaxDay
          /\ today' = AddDays(today, n)
    /\ UNCHANGED <<fs, lock, pc, run, last, written, fetched, synced, removed, ticks, failed>>

\* the clock is set back by a day (the next run is on a machine whose date is behind)
SetBack ==
    /\ pc = "idle"
    /\ ticks < MaxSetBacks
    /\ today' = AddDays(today, -1)
    /\ ticks' = ticks + 1
    /\ UNCHANGED <<fs, lock, pc, run, last, written, fetched, synced, removed, failed>>

\* a metadata.json is removed from the working tree
RemoveFile ==
    /\ pc = "idle"
    /\ \E p \in CheckedPaths :
          /\ fs[p].exists
          /\ fs' = [fs EXCEPT ![p] = NoFile]
    /\ removed' = TRUE
    /\ UNCHANGED <<lock, today, pc, run, last, written, fetched, synced, ticks, failed>>

SyncStep ==
    \/ \E download_html \in BOOLEAN : SyncStart(download_html)
    \/ \E oc \in Outcomes, orr \in Outcomes : SyncLibrary(oc, orr)
    \/ SyncCrash
    \/ SyncFinish

\* sync and check runs, from an empty snapshot directory, the lockfile edited
\* between them
Next ==
    \/ SyncStep
    \/ Check
    \/ EditLock

Spec == Init /\ [][Next]_vars

\* check runs over the days, in a working tree that sync runs without
\* --download-html fill and where a metadata.json can be removed between runs
InitEnv ==
    /\ Init
    /\ lock = LockPinned

NextEnv ==
    \/ SyncStart(FALSE)
    \/ SyncLibrary("ok", "ok")
    \/ SyncFinish
    \/ Check
    \/ Tick
    \/ SetBack
    \/ RemoveFile

SpecEnv == InitEnv /\ [][NextEnv]_vars

(***************************************************************************)
(* The choice of the version alone: a lockfile that lists one tracked      *)
(* crate with any versions in any order is resolved.                       *)
(***************************************************************************)
\* lists of distinct versions, at most MaxCands long
CandidateLists ==
    { vs \in UNION { [1..n -> VersionSamples] : n \in 1..MaxCands } :
        \A i, j \in 1..Len(vs) : i # j => vs[i] # vs[j] }

\* the entries of the tracked crates from index i on: crate with the versions vs,
\* every other one pinned
RECURSIVE EntriesWith(_, _, _)
EntriesWith(i, crate, vs) ==
    IF i > Len(Tracked) THEN <<>>
    ELSE Entries(Tracked[i].crate, IF Tracked[i].crate = crate THEN vs ELSE <<V_0_9_0>>)
         \o EntriesWith(i + 1, crate, vs)

InitSemver ==
    /\ \E crate \in Crates, vs \in CandidateLists :
          lock = [exists |-> TRUE, packages |-> EntriesWith(1, crate, vs)]
    /\ fs = EmptyDir
    /\ today = StartDate
    /\ pc = "idle"
    /\ run = NoRun
    /\ last = NoLast
    /\ written = {}
    /\ fetched = [s \in Slugs |-> NotFetched]
    /\ synced = NoSync
    /\ removed = FALSE
    /\ ticks = 0
    /\ failed = 0

NextSemver == \E download_html \in BOOLEAN : SyncStart(download_html)

SpecSemver == InitSemver /\ [][NextSemver]_vars

(***************************************************************************)
(* The snapshot marker alone: sync and check runs on any day.              *)
(***************************************************************************)
DateSamples ==
    { [year |-> y, month |-> m, day |-> d] :
        y \in {1, 999, 2023, 2024, 9999}, m \in 1..12, d \in {1, 9, 10, 28, 29, 30, 31} }

InitDate ==
    /\ today \in { d \in DateSamples : IsDate(d.year, d.month, d.day) }
    /\ lock = LockPinned
    /\ fs = EmptyDir
    /\ pc = "idle"
    /\ run = NoRun
    /\ last = NoLast
    /\ written = {}
    /\ fetched = [s \in Slugs |-> NotFetched]
    /\ synced = NoSync
    /\ removed = FALSE
    /\ ticks = 0
    /\ failed = 0

NextDate ==
    \/ \E download_html \in BOOLEAN : SyncStart(download_html)
    \/ SyncLibrary("ok", "ok")
    \/ SyncFinish
    \/ Check

SpecDate == InitDate /\ [][NextDate]_vars

(***************************************************************************)
(* Semantic-version precedence (semver.org, item 11), the order the claim  *)
(* about the chosen version is stated in.                                  *)
(***************************************************************************)
\* the dot-separated identifiers of a pre-release suffix
SemverIds(pre) == IF pre = <<>> THEN <<>> ELSE Split(pre, ".")

\* precedence of two pre-release identifiers: numeric ones by value and below
\* every alphanumeric one, alphanumeric ones by ASCII order
SemverIdLess(a, b) ==
    IF AllDigits(a) /\ AllDigits(b) THEN ParseInt(a) < ParseInt(b)
    ELSE IF AllDigits(a) THEN TRUE
    ELSE IF AllDigits(b) THEN FALSE
    ELSE StrLess(a, b)

RECURSIVE SemverPreLess(_, _)
SemverPreLess(x, y) ==
    IF y = <<>> THEN FALSE
    ELSE IF x = <<>> THEN TRUE
    ELSE IF Head(x) # Head(y) THEN SemverIdLess(Head(x), Head(y))
    ELSE SemverPreLess(Tail(x), Tail(y))

\* version a has lower precedence than version b
SemverLess(a, b) ==
    LET sa == SplitOnce(a, "-")
        sb == SplitOnce(b, "-")
        ma == Split(sa[1], ".")
        mb == Split(sb[1], ".")
        na == [i \in 1..3 |-> ParseInt(ma[i])]
        nb == [i \in 1..3 |-> ParseInt(mb[i])]
        pa == IF Len(sa) > 1 THEN SemverIds(sa[2]) ELSE <<>>
        pb == IF Len(sb) > 1 THEN SemverIds(sb[2]) ELSE <<>>
    IN  IF na # nb
        THEN \/ na[1] < nb[1]
             \/ na[1] = nb[1] /\ na[2] < nb[2]
             \/ na[1] = nb[1] /\ na[2] = nb[2] /\ na[3] < nb[3]
        ELSE IF pa = <<>> THEN FALSE
        ELSE IF pb = <<>> THEN TRUE
        ELSE SemverPreLess(pa, pb)

\* the version the run resolved for crate is a maximum, under semantic-version
\* precedence, of the versions the lockfile lists for it
PickedIsSemverMax(crate) ==
    LET cands == CandidatesOf(lock.packages, crate)
    IN  \A i \in 1..Len(cands) : ~SemverLess(run.versions[crate], cands[i])

(***************************************************************************)
(* C1. For every tracked library and every non-empty list of versions of   *)
(* its crate in the lockfile, in any order, parse_cargo_lock_versions      *)
(* returns the maximum under semantic-version precedence.                  *)
(* Stated as the claim has it; the code orders a pre-release suffix as a   *)
(* string and the empty suffix first.                                      *)
(***************************************************************************)
C1_PicksSemverMax ==
    pc = "libs" => \A crate \in Crates : PickedIsSemverMax(crate)

\* the part of C1 that holds of the code: versions without a pre-release suffix
C1_NoSuffix(crate) ==
    \A i \in 1..Len(CandidatesOf(lock.packages, crate)) :
        FindChar(CandidatesOf(lock.packages, crate)[i], "-", 1) = 0

C1_PicksMaxOfReleases ==
    pc = "libs" =>
        \A crate \in Crates : C1_NoSuffix(crate) => PickedIsSemverMax(crate)

(***************************************************************************)
(* Shorthands of the claims below.                                         *)
(***************************************************************************)
AllMetadata == \A s \in Slugs : fs[MetadataPath(s)].exists

SyncReturned0 == pc = "idle" /\ last.cmd = "sync" /\ last.outcome = "return 0"

\* a download of the library failed with URLError in the most recent sync run
FailedIn(slug) == fetched[slug].crate = "unreachable" \/ fetched[slug].rustdoc = "unreachable"

\* the text after source= in the snapshot marker
SourceOf(f) ==
    LET lines == splitlines(f[VERSION_FILE].data)
        k     == CHOOSE i \in 1..Len(lines) : startswith(lines[i], SourceKey)
    IN  SubSeq(lines[k], Len(SourceKey) + 1, Len(lines[k]))

(***************************************************************************)
(* C2. check_snapshot returns 0 only if every tracked library has a        *)
(* metadata.json; if the marker holds a date and at least one metadata.json*)
(* is missing it returns 1, whatever the age of the snapshot.              *)
(***************************************************************************)
C2_CheckNeedsAllMetadata ==
    [][Check =>
         /\ (last'.outcome = "return 0" => AllMetadata)
         /\ ((fs[VERSION_FILE].exists /\ ~AllMetadata) => last'.outcome = "return 1")]_vars

\* a check on the day of the sync that fails for a missing metadata.json
C2_Witness ==
    /\ last.cmd = "check"
    /\ last.outcome = "return 1"
    /\ last.missing # {}
    /\ last.age_days = 0
    /\ today = synced.date
    /\ fs[VERSION_FILE].exists
    /\ ~AllMetadata

(***************************************************************************)
(* C3. With a dated marker and every metadata.json present, the age of the *)
(* snapshot in days alone decides a check: it returns 1 exactly when the   *)
(* age is above 60, 0 with a warning exactly when it is above 30 and at    *)
(* most 60, and 0 without a warning when it is at most 30.                 *)
(***************************************************************************)
C3_AgeDecides ==
    [][Check =>
         ((fs[VERSION_FILE].exists /\ AllMetadata) =>
            LET age == DaysBetween(today, synced.date)
            IN  /\ (last'.outcome = "return 1") <=> (age > 60)
                /\ (last'.outcome = "return 0" /\ last'.warning) <=> (30 < age /\ age <= 60)
                /\ (last'.outcome = "return 0" /\ ~last'.warning) <=> (age <= 30))]_vars

\* a check of a snapshot that is exactly 60 days old: it passes, with the warning
C3_Witness ==
    /\ last.cmd = "check"
    /\ last.age_days = 60
    /\ fs[VERSION_FILE].exists
    /\ DaysBetween(today, synced.date) = 60
    /\ last.outcome = "return 0"
    /\ last.warning
    /\ AllMetadata

\* further cases of C3 that are reached: 30 days, 61 days, a snapshot dated tomorrow
C3_Reached30 ==
    last.cmd = "check" /\ last.age_days = 30 /\ last.outcome = "return 0" /\ ~last.warning

C3_Reached61 ==
    last.cmd = "check" /\ last.age_days = 61 /\ last.outcome = "return 1" /\ AllMetadata

C3_ReachedFuture ==
    last.cmd = "check" /\ last.age_days < 0 /\ last.outcome = "return 0" /\ ~last.warning

(***************************************************************************)
(* C4. In a sync run with --download-html, a download that fails because   *)
(* the network is unreachable does not abort the run: DOWNLOAD_STATUS.txt  *)
(* is written for the library with the text of the failure, its            *)
(* metadata.json is written with downloaded = false, the pages that did    *)
(* download, and only they, are saved as HTML, every library is processed  *)
(* and the run writes VERSION and the index and returns 0.                 *)
(***************************************************************************)
C4_FailureRecorded ==
    ( /\ pc = "idle"
      /\ last.cmd = "sync"
      /\ last.download_html
      /\ fetched[Tracked[1].slug] # NotFetched
      /\ \A s \in Slugs : fetched[s].crate # "raise" )
    =>
    /\ last.outcome = "return 0"
    /\ {VERSION_FILE, INDEX_FILE} \subseteq written
    /\ fs[VERSION_FILE].exists /\ fs[INDEX_FILE].exists
    /\ \A s \in Slugs :
         /\ MetadataPath(s) \in written
         /\ fs[MetadataPath(s)].exists
         /\ (<<s, "docsrs-crate.html">> \in written) <=> (fetched[s].crate = "ok")
         /\ (<<s, "docsrs-rustdoc.html">> \in written) <=> (fetched[s].rustdoc = "ok")
         /\ FailedIn(s) =>
              /\ <<s, "DOWNLOAD_STATUS.txt">> \in written
              /\ fs[<<s, "DOWNLOAD_STATUS.txt">>].exists
              /\ fs[<<s, "DOWNLOAD_STATUS.txt">>].data.crate_page =
                    (IF fetched[s].crate = "unreachable" THEN URLErrorText ELSE "ok")
              /\ fs[<<s, "DOWNLOAD_STATUS.txt">>].data.rustdoc_page =
                    (IF fetched[s].rustdoc = "unreachable" THEN URLErrorText ELSE "ok")
              /\ fs[MetadataPath(s)].data.downloaded = FALSE

\* a run that returned 0 although the crate page of the first library could not
\* be downloaded, and that went on to save the pages of the second library
C4_Witness ==
    /\ SyncReturned0
    /\ last.download_html
    /\ fetched[Tracked[1].slug] = [crate |-> "unreachable", rustdoc |-> "ok"]
    /\ fs[<<Tracked[1].slug, "DOWNLOAD_STATUS.txt">>].exists
    /\ <<Tracked[1].slug, "docsrs-rustdoc.html">> \in written
    /\ <<Tracked[1].slug, "docsrs-crate.html">> \notin written
    /\ fs[MetadataPath(Tracked[1].slug)].data.downloaded = FALSE
    /\ <<Tracked[2].slug, "docsrs-crate.html">> \in written

(***************************************************************************)
(* C5. After every sync run that returned 0, with or without               *)
(* --download-html, the metadata.json of each tracked library holds the    *)
(* package id, the version chosen from the lockfile, the two docs.rs URLs  *)
(* of that crate and version, and the download outcome.                    *)
(* Stated as the claim has it; without --download-html the code writes no  *)
(* download outcome.                                                       *)
(***************************************************************************)
C5_MetadataHoldsOutcome ==
    SyncReturned0 =>
        \A i \in 1..Len(Tracked) :
            LET lib == Tracked[i]
                v   == synced.versions[lib.crate]
                m   == fs[MetadataPath(lib.slug)].data
            IN  /\ fs[MetadataPath(lib.slug)].exists
                /\ m.crate = lib.crate
                /\ m.version = v
                /\ m.docs_rs_crate = [base |-> "https://docs.rs/crate/", crate |-> lib.crate,
                                      version |-> v, path |-> ""]
                /\ m.docs_rs_rustdoc = [base |-> "https://docs.rs/", crate |-> lib.crate,
                                        version |-> v, path |-> lib.rustdoc_path]
                /\ "downloaded" \in DOMAIN m

(***************************************************************************)
(* C6. A sync run resolves the lockfile before it fetches a page or writes *)
(* a file: with the lockfile missing, or one tracked crate without an      *)
(* entry in it, the run ends with an error and no file of the snapshot     *)
(* directory has been created or modified.                                 *)
(***************************************************************************)
LockComplete ==
    /\ lock.exists
    /\ \A c \in Crates : \E i \in 1..Len(lock.packages) : lock.packages[i].name = c

C6_LockfileFirst ==
    [][\A download_html \in BOOLEAN :
          (SyncStart(download_html) /\ ~LockComplete) =>
              /\ pc' = "idle"
              /\ last'.outcome = "raise"
              /\ fs' = fs
              /\ written' = {}]_vars

\* a run that ended with an error for the one crate the lockfile does not list,
\* over the snapshot an earlier run left
C6_Witness ==
    /\ pc = "idle"
    /\ last.cmd = "sync"
    /\ last.outcome = "raise"
    /\ last.error = "Crate was not found in Cargo.lock"
    /\ lock = LockPartial
    /\ written = {}
    /\ fs[VERSION_FILE].exists
    /\ AllMetadata

(***************************************************************************)
(* C7. The snapshot marker a sync run writes holds the date of the run and *)
(* its mode: source is docsrs-html exactly when the run used               *)
(* --download-html and docsrs-links otherwise, and parse_snapshot_date     *)
(* reads back the date write_version wrote, for every date and both modes. *)
(***************************************************************************)
C7_MarkerRoundTrip ==
    synced.date # NoDate =>
        /\ fs[VERSION_FILE].exists
        /\ parse_snapshot_date(fs).ok
        /\ parse_snapshot_date(fs).date = synced.date
        /\ (SourceOf(fs) = ModeHtml) <=> synced.download_html
        /\ (SourceOf(fs) = ModeLinks) <=> ~synced.download_html
        /\ (last.cmd = "check" =>
               last.outcome # "raise" /\ last.snapshot_date = synced.date)

\* a check read back the date of a run with --download-html in the year 1
C7_Witness ==
    /\ synced.date = [year |-> 1, month |-> 2, day |-> 9]
    /\ synced.download_html
    /\ last.cmd = "check"
    /\ last.snapshot_date = synced.date

(***************************************************************************)
(* The files as they are pass a check run on each of the 60 days after the *)
(* last sync run that returned 0, without a warning on the day itself; the *)
(* marker is parsed once.                                                  *)
(***************************************************************************)
PassesFor60Days(f, date) ==
    LET parsed == parse_snapshot_date(f)
    IN  \A n \in 0..60 :
           LET res == check_snapshot_body(parsed, f, AddDays(date, n))
           IN  res.outcome = "return 0" /\ (n = 0 => ~res.warning)

(***************************************************************************)
(* C8. After a sync run that returned 0, in either mode and whatever its   *)
(* downloads did, a check run passes as long as at most 60 days have       *)
(* passed since the sync and no snapshot file has been removed; a check on *)
(* the day of the sync passes without a warning.                           *)
(* By induction over the steps: a run that ends, completed or stopped      *)
(* part-way, leaves files that pass for 60 days; a step between runs       *)
(* leaves the files and the last sync alone; and a check run on the day of *)
(* the sync returns 0 without a warning.                                   *)
(***************************************************************************)
C8_CheckPassesAfterSync ==
    [][ /\ (pc # "idle" /\ pc' = "idle" /\ synced'.date # NoDate /\ ~removed')
               => PassesFor60Days(fs', synced'.date)
        /\ (pc = "idle" /\ pc' = "idle" /\ synced'.date # NoDate /\ ~removed')
               => (fs' = fs /\ synced' = synced /\ ~removed)
        /\ (last'.cmd = "check" /\ synced'.date # NoDate /\ ~removed'
               /\ today' = synced'.date)
               => (last'.outcome = "return 0" /\ ~last'.warning) ]_vars

\* a check run passed on the day of a sync with --download-html in which a
\* download failed, and a later sync run that stopped part-way leaves it passing
C8_Witness ==
    /\ pc = "idle"
    /\ synced.date # NoDate
    /\ synced.download_html
    /\ \E s \in Slugs : fs[<<s, "DOWNLOAD_STATUS.txt">>].exists
    /\ last.cmd = "check"
    /\ last.outcome = "return 0"
    /\ ~last.warning
    /\ check_snapshot(fs, AddDays(synced.date, 60)).outcome = "return 0"
    /\ check_snapshot(fs, AddDays(synced.date, 60)).warning

(***************************************************************************)
(* C9. From an empty snapshot directory, in every state any sequence of    *)
(* sync and check runs reaches, sync runs that stop part-way included, the *)
(* VERSION file exists only if metadata.json exists for every tracked      *)
(* library; and no run deletes a file.                                     *)
(***************************************************************************)
C9_VersionOnlyWithAllMetadata ==
    /\ [](fs[VERSION_FILE].exists => AllMetadata)
    /\ [][\A p \in Paths : fs[p].exists => fs'[p].exists]_vars

\* a sync run stopped part-way, over the snapshot of an earlier run
C9_Witness ==
    /\ pc = "idle"
    /\ last.cmd = "sync"
    /\ last.outcome = "raise"
    /\ last.error = "download raised"
    /\ written # {}
    /\ fs[VERSION_FILE].exists
    /\ AllMetadata

(***************************************************************************)
(* C10. After any sequence of sync runs the files of a library agree with  *)
(* the most recent sync run: DOWNLOAD_STATUS.txt exists only if that run   *)
(* used --download-html and a download of the library failed in it, and a  *)
(* docsrs-crate.html or docsrs-rustdoc.html that is present was downloaded *)
(* in that run for the version metadata.json records.                      *)
(* Stated as the claim has it; the code leaves the files of earlier runs.  *)
(***************************************************************************)
C10_FilesAgreeWithLastSync ==
    SyncReturned0 =>
        \A s \in Slugs :
            /\ fs[<<s, "DOWNLOAD_STATUS.txt">>].exists => (last.download_html /\ FailedIn(s))
            /\ fs[<<s, "docsrs-crate.html">>].exists =>
                  /\ <<s, "docsrs-crate.html">> \in written
                  /\ fs[<<s, "docsrs-crate.html">>].data =
                        Page(fs[MetadataPath(s)].data.docs_rs_crate)
            /\ fs[<<s, "docsrs-rustdoc.html">>].exists =>
                  /\ <<s, "docsrs-rustdoc.html">> \in written
                  /\ fs[<<s, "docsrs-rustdoc.html">>].data =
                        Page(fs[MetadataPath(s)].data.docs_rs_rustdoc)

====
